---- MODULE Spec2Model ----
(***************************************************************************)
(* State-machine model of the VideoWatermarkRemover React component        *)
(* (src/src/components/VideoWatermarkRemover.tsx).                         *)
(*                                                                         *)
(* The variables are the component's useState cells, the DOM properties    *)
(* the handlers read through videoRef / containerRef, and the processVideo *)
(* invocations that are suspended at an await.  Every event handler is one *)
(* action; React re-renders between two events, so a handler always sees   *)
(* the state left by the previous one.                                     *)
(*                                                                         *)
(* Numbers: pointer coordinates and DOM sizes are integers here.  The code *)
(* computes box.x * (videoWidth / containerWidth) in IEEE doubles; the     *)
(* model computes the same product exactly and rounds half up like         *)
(* Math.round.  The two differ only when the exact product is within one   *)
(* double ulp of k + 1/2.                                                  *)
(***************************************************************************)
EXTENDS Integers, Sequences, FiniteSets, TLC

VARIABLES
    loadPc,             \* position of load(): "start", "await", "done"
    loaded,             \* useState(false), line 18
    isLoading,          \* useState(false), line 19
    videoFile,          \* useState<File | null>, line 21
    videoUrl,           \* useState<string | null>, line 22
    processedVideoUrl,  \* useState<string | null>, line 23
    progress,           \* useState(0), line 24
    isProcessing,       \* useState(false), line 25
    error,              \* useState<string | null>, line 26
    isDrawing,          \* useState(false), line 31
    boxes,              \* useState<Box[]>([]), line 32
    currentBox,         \* useState<... | null>, line 33
    startPos,           \* useState<... | null>, line 34
    video,              \* videoRef.current: videoWidth / videoHeight
    container,          \* containerRef.current: clientWidth / clientHeight
    jobs,               \* processVideo invocations suspended at an await
    call                \* what the click on the process button found and did,
                        \* while that click is the most recent event; null
                        \* otherwise

vars == <<loadPc, loaded, isLoading, videoFile, videoUrl, processedVideoUrl,
          progress, isProcessing, error, isDrawing, boxes, currentBox,
          startPos, video, container, jobs, call>>

(***************************************************************************)
(* Bounds of the model.                                                    *)
(***************************************************************************)
MaxBoxes == 2       \* longest finalized list explored
MaxJobs == 2        \* most processVideo invocations suspended at once

(***************************************************************************)
(* Values.                                                                 *)
(***************************************************************************)
\* JavaScript null.  Every nullable cell holds a record, so that null can be
\* compared with a value.
NULL == [null |-> TRUE]

\* The 10px finalization threshold of handleMouseUp.
Threshold == 10

\* Files the user can pick.  width / height are the intrinsic dimensions the
\* browser reports once the metadata is decoded; shownW / shownH is the size
\* the <video> is laid out at.  The browser cannot decode b.mov: its metadata
\* never arrives and the element keeps reporting 0 x 0.
Files ==
    { [name |-> "a.mp4",  type |-> "video/mp4", width |-> 1920, height |-> 1080,
       shownW |-> 800, shownH |-> 450],
      [name |-> "b.mov", type |-> "", width |-> 0, height |-> 0,
       shownW |-> 300, shownH |-> 150] }

\* Pointer positions relative to the container (clientX - rect.left,
\* clientY - rect.top): where the button goes down, and where the pointer
\* moves to.  From (100,100) the third point gives a draft of 10 x 20, from
\* (150,130) one of 40 x 10: one side exactly at the threshold.
DownPoints == { [x |-> 100, y |-> 100], [x |-> 150, y |-> 130] }
Points == DownPoints \cup { [x |-> 110, y |-> 120] }

\* Values of Math.random().toString(36).substr(2, 9).
IdPool == { "k3j2h1g0f", "z9y8x7w6v" }

\* Fractions delivered by the engine's progress event, in thousandths.
ProgressFractions == { 4, 996 }

LoadErrorMsg == "Failed to load FFmpeg. Please try again later."
ProcessingErrorMsg ==
    "An error occurred while processing the video. Make sure the selected areas are within the video bounds."

\* A <video> whose metadata has not arrived reports 0 x 0 and is laid out at
\* the default 300 x 150.
NoMetadata == [videoWidth |-> 0, videoHeight |-> 0]
DefaultLayout == [clientWidth |-> 300, clientHeight |-> 150]

(***************************************************************************)
(* Pure helpers.                                                           *)
(***************************************************************************)
Min(a, b) == IF a <= b THEN a ELSE b
Max(a, b) == IF a >= b THEN a ELSE b
Abs(a) == IF a >= 0 THEN a ELSE -a

\* Math.round(n / d) for d > 0: the nearest integer, halves towards +infinity.
RoundDiv(n, d) == (2 * n + d) \div (2 * d)

RECURSIVE Join(_, _)
\* Array.prototype.join
Join(ss, sep) ==
    IF Len(ss) = 0 THEN ""
    ELSE IF Len(ss) = 1 THEN ss[1]
    ELSE ss[1] \o sep \o Join(Tail(ss), sep)

(***************************************************************************)
(* processVideo, lines 129-150: viewport space to video space.             *)
(***************************************************************************)
\* RoundScaled truncating (Math.floor) instead of rounding.
RoundScaled_Floor(v, native, rendered) == (v * native) \div rendered

\* Math.round(v * (native / rendered)), lines 134-135 and 139-142.
RoundScaled(v, native, rendered) == RoundDiv(v * native, rendered)

\* Lines 139-147: one box mapped to video space and clamped to the frame.
\* d = [videoWidth, videoHeight, containerWidth, containerHeight].
MapBox(box, d) ==
    LET rawX == RoundScaled(box.x, d.videoWidth, d.containerWidth)
        rawY == RoundScaled(box.y, d.videoHeight, d.containerHeight)
        rawW == RoundScaled(box.width, d.videoWidth, d.containerWidth)
        rawH == RoundScaled(box.height, d.videoHeight, d.containerHeight)
        actualX == Max(0, Min(rawX, d.videoWidth - 1))
        actualY == Max(0, Min(rawY, d.videoHeight - 1))
        actualWidth == Max(1, Min(rawW, d.videoWidth - actualX))
        actualHeight == Max(1, Min(rawH, d.videoHeight - actualY))
    IN  [x |-> actualX, y |-> actualY, w |-> actualWidth, h |-> actualHeight]

\* Line 149: the template literal.
DelogoOp(r) ==
    "delogo=x=" \o ToString(r.x) \o ":y=" \o ToString(r.y)
        \o ":w=" \o ToString(r.w) \o ":h=" \o ToString(r.h)

\* FilterOps listing the regions last to first.
FilterOps_Reversed(bs, d) ==
    [i \in 1..Len(bs) |-> DelogoOp(MapBox(bs[Len(bs) + 1 - i], d))]

\* Line 138: boxes.map(...), the array before the join.
FilterOps(bs, d) == [i \in 1..Len(bs) |-> DelogoOp(MapBox(bs[i], d))]

\* Lines 138-150: the -vf argument.
FilterChain(bs, d) == Join(FilterOps(bs, d), ",")

RECURSIVE LastDot(_, _)
\* Index of the last "." of name at or before position i, 0 when there is none.
LastDot(name, i) ==
    IF i = 0 THEN 0
    ELSE IF SubSeq(name, i, i) = "." THEN i
    ELSE LastDot(name, i - 1)

\* Line 152: videoFile.name.split('.').pop() || 'mp4'.
Ext(name) ==
    LET k == LastDot(name, Len(name))
        tail == SubSeq(name, k + 1, Len(name))
    IN  IF tail = "" THEN "mp4" ELSE tail

(***************************************************************************)
(* What is rendered (the JSX, lines 188-361) decides which handlers can    *)
(* run and whether the refs are set.                                       *)
(***************************************************************************)
\* Line 195: everything but the spinner is rendered only when loaded.
\* Lines 211, 233, 243-260: the drawing container and its <video>.
ContainerMounted == loaded /\ videoUrl # NULL /\ processedVideoUrl = NULL

\* Lines 211-219: the file input.
UploadShown == loaded /\ videoUrl = NULL

\* Lines 220-229: the "Start Over" button.
ResetShown == loaded /\ videoUrl # NULL

\* Lines 202-209: the error banner and its dismiss button.
ErrorShown == loaded /\ error # NULL

\* Lines 326-353: the result view with the download link.
ResultShown == loaded /\ videoUrl # NULL /\ processedVideoUrl # NULL

\* ProcessDisabled without the isProcessing test.
ProcessDisabled_NoBusy == Len(boxes) = 0

\* Line 303: disabled={boxes.length === 0 || isProcessing}.
ProcessDisabled == Len(boxes) = 0 \/ isProcessing

\* Line 117: the early return of processVideo.
ProcessReturnsEarly ==
    videoFile = NULL \/ Len(boxes) = 0 \/ video = NULL \/ container = NULL

\* Lines 129-132: the four dimensions read at the start of a job.
Dims ==
    [videoWidth |-> video.videoWidth, videoHeight |-> video.videoHeight,
     containerWidth |-> container.clientWidth,
     containerHeight |-> container.clientHeight]

\* AwaitOrder with exec issued before the input is written.
AwaitOrder_ExecFirst == <<"fetchFile", "exec", "writeFile", "readFile">>

\* The awaits of processVideo in program order, lines 156-165.
AwaitOrder == <<"fetchFile", "writeFile", "exec", "readFile">>

\* The await a suspended invocation is waiting on.
Awaiting(j) == AwaitOrder[Len(j.steps) + 1]

\* A reset or a new upload happened while these invocations were suspended.
MarkStale(js) == [i \in 1..Len(js) |-> [js[i] EXCEPT !.stale = TRUE]]

\* js without its i-th element.
RemoveAt(js, i) == SubSeq(js, 1, i - 1) \o SubSeq(js, i + 1, Len(js))

\* FilterOutId with the test inverted: filter(b => b.id === id).
RECURSIVE FilterOutId_KeepsMatch(_, _)
FilterOutId_KeepsMatch(bs, id) ==
    IF Len(bs) = 0 THEN <<>>
    ELSE IF bs[1].id = id THEN <<bs[1]>> \o FilterOutId_KeepsMatch(Tail(bs), id)
    ELSE FilterOutId_KeepsMatch(Tail(bs), id)

\* Array.prototype.filter(b => b.id !== id), line 113.
RECURSIVE FilterOutId(_, _)
FilterOutId(bs, id) ==
    IF Len(bs) = 0 THEN <<>>
    ELSE IF bs[1].id # id THEN <<bs[1]>> \o FilterOutId(Tail(bs), id)
    ELSE FilterOutId(Tail(bs), id)

(***************************************************************************)
(* Initial state: the useState initial values, before the mount effect.    *)
(***************************************************************************)
Init ==
    /\ loadPc = "start"
    /\ loaded = FALSE
    /\ isLoading = FALSE
    /\ videoFile = NULL
    /\ videoUrl = NULL
    /\ processedVideoUrl = NULL
    /\ progress = 0
    /\ isProcessing = FALSE
    /\ error = NULL
    /\ isDrawing = FALSE
    /\ boxes = <<>>
    /\ currentBox = NULL
    /\ startPos = NULL
    /\ video = NULL
    /\ container = NULL
    /\ jobs = <<>>
    /\ call = NULL

(***************************************************************************)
(* load, lines 36-61.                                                      *)
(***************************************************************************)
\* Lines 59-61 and 37-45: the mount effect runs load() up to its await.
Load ==
    /\ loadPc = "start"
    /\ loadPc' = "await"
    /\ isLoading' = TRUE
    /\ call' = NULL
    /\ UNCHANGED <<loaded, videoFile, videoUrl, processedVideoUrl, progress,
                   isProcessing, error, isDrawing, boxes, currentBox, startPos,
                   video, container, jobs>>

\* Lines 45-50 and 54-56: ffmpeg.load resolves.
LoadResolve ==
    /\ loadPc = "await"
    /\ loadPc' = "done"
    /\ loaded' = TRUE
    /\ isLoading' = FALSE
    /\ call' = NULL
    /\ UNCHANGED <<videoFile, videoUrl, processedVideoUrl, progress,
                   isProcessing, error, isDrawing, boxes, currentBox, startPos,
                   video, container, jobs>>

\* Lines 51-56: ffmpeg.load rejects.
LoadReject ==
    /\ loadPc = "await"
    /\ loadPc' = "done"
    /\ error' = [msg |-> LoadErrorMsg, stale |-> FALSE]
    /\ isLoading' = FALSE
    /\ call' = NULL
    /\ UNCHANGED <<loaded, videoFile, videoUrl, processedVideoUrl, progress,
                   isProcessing, isDrawing, boxes, currentBox, startPos,
                   video, container, jobs>>

\* Lines 40-42: the progress handler; the engine emits while exec runs.
Progress ==
    /\ \E i \in 1..Len(jobs) : Awaiting(jobs[i]) = "exec"
    /\ \E f \in ProgressFractions : progress' = RoundDiv(f * 100, 1000)
    /\ call' = NULL
    /\ UNCHANGED <<loadPc, loaded, isLoading, videoFile, videoUrl,
                   processedVideoUrl, isProcessing, error, isDrawing, boxes,
                   currentBox, startPos, video, container, jobs>>

(***************************************************************************)
(* Upload, reset, error banner.                                            *)
(***************************************************************************)
\* Lines 63-74.  The new <video> mounts without metadata.
HandleFileChange ==
    /\ UploadShown
    /\ \E file \in Files :
        /\ videoFile' = file
        /\ videoUrl' = [src |-> file.name]
    /\ processedVideoUrl' = NULL
    /\ boxes' = <<>>
    /\ currentBox' = NULL
    /\ progress' = 0
    /\ error' = NULL
    /\ video' = NoMetadata
    /\ container' = DefaultLayout
    /\ jobs' = MarkStale(jobs)
    /\ call' = NULL
    /\ UNCHANGED <<loadPc, loaded, isLoading, isProcessing, isDrawing,
                   startPos>>

\* Lines 178-186.  The container unmounts, so both refs become null.
Reset ==
    /\ ResetShown
    /\ videoFile' = NULL
    /\ videoUrl' = NULL
    /\ processedVideoUrl' = NULL
    /\ boxes' = <<>>
    /\ currentBox' = NULL
    /\ progress' = 0
    /\ error' = NULL
    /\ video' = NULL
    /\ container' = NULL
    /\ jobs' = MarkStale(jobs)
    /\ call' = NULL
    /\ UNCHANGED <<loadPc, loaded, isLoading, isProcessing, isDrawing,
                   startPos>>

\* Line 205: onClick={() => setError(null)}.
DismissError ==
    /\ ErrorShown
    /\ error' = NULL
    /\ call' = NULL
    /\ UNCHANGED <<loadPc, loaded, isLoading, videoFile, videoUrl,
                   processedVideoUrl, progress, isProcessing, isDrawing, boxes,
                   currentBox, startPos, video, container, jobs>>

\* The browser decodes the metadata of the mounted <video> (lines 252-260):
\* videoWidth / videoHeight become the intrinsic size and the container is
\* laid out around the video.
LoadedMetadata ==
    /\ ContainerMounted
    /\ video = NoMetadata
    /\ videoFile.width > 0
    /\ video' = [videoWidth |-> videoFile.width, videoHeight |-> videoFile.height]
    /\ container' = [clientWidth |-> videoFile.shownW,
                     clientHeight |-> videoFile.shownH]
    /\ call' = NULL
    /\ UNCHANGED <<loadPc, loaded, isLoading, videoFile, videoUrl,
                   processedVideoUrl, progress, isProcessing, error, isDrawing,
                   boxes, currentBox, startPos, jobs>>

(***************************************************************************)
(* Region capture: handleMouseDown / handleMouseMove / handleMouseUp /     *)
(* removeBox, lines 76-114.  The container's mouse handlers exist only     *)
(* while the container is mounted.                                         *)
(***************************************************************************)
\* Lines 76-86.  p is (clientX - rect.left, clientY - rect.top).
HandleMouseDown(p) ==
    /\ ContainerMounted
    /\ isDrawing' = TRUE
    /\ startPos' = p
    /\ currentBox' = [x |-> p.x, y |-> p.y, width |-> 0, height |-> 0]
    /\ call' = NULL
    /\ UNCHANGED <<loadPc, loaded, isLoading, videoFile, videoUrl,
                   processedVideoUrl, progress, isProcessing, error, boxes,
                   video, container, jobs>>

\* Lines 95-98: the normalized bounding box of the anchor and the pointer.
DraftBox(anchor, p) ==
    [x |-> Min(anchor.x, p.x), y |-> Min(anchor.y, p.y),
     width |-> Abs(p.x - anchor.x), height |-> Abs(p.y - anchor.y)]

\* HandleMouseMove growing the draft from the corner of the previous draft
\* instead of the anchor.
HandleMouseMove_Incremental(p) ==
    /\ ContainerMounted
    /\ IF ~isDrawing \/ startPos = NULL \/ currentBox = NULL
       THEN UNCHANGED currentBox
       ELSE currentBox' = DraftBox([x |-> currentBox.x, y |-> currentBox.y], p)
    /\ call' = NULL
    /\ UNCHANGED <<loadPc, loaded, isLoading, videoFile, videoUrl,
                   processedVideoUrl, progress, isProcessing, error, isDrawing,
                   boxes, startPos, video, container, jobs>>

\* Lines 88-101.
HandleMouseMove(p) ==
    /\ ContainerMounted
    /\ IF ~isDrawing \/ startPos = NULL
       THEN UNCHANGED currentBox
       ELSE currentBox' = DraftBox(startPos, p)
    /\ call' = NULL
    /\ UNCHANGED <<loadPc, loaded, isLoading, videoFile, videoUrl,
                   processedVideoUrl, progress, isProcessing, error, isDrawing,
                   boxes, startPos, video, container, jobs>>

\* DraftPasses with the width compared by >= instead of >.
DraftPasses_Inclusive ==
    /\ isDrawing
    /\ currentBox # NULL
    /\ currentBox.width >= Threshold
    /\ currentBox.height > Threshold

\* Line 104: the draft is promoted.
DraftPasses ==
    /\ isDrawing
    /\ currentBox # NULL
    /\ currentBox.width > Threshold
    /\ currentBox.height > Threshold

\* Lines 103-109; also the onMouseLeave handler (line 250).  id is the value
\* of Math.random().toString(36).substr(2, 9).
HandleMouseUp(id) ==
    /\ ContainerMounted
    /\ IF DraftPasses
       THEN /\ Len(boxes) < MaxBoxes
            /\ boxes' = Append(boxes,
                   [x |-> currentBox.x, y |-> currentBox.y,
                    width |-> currentBox.width, height |-> currentBox.height,
                    id |-> id])
       ELSE UNCHANGED boxes
    /\ isDrawing' = FALSE
    /\ currentBox' = NULL
    /\ call' = NULL
    /\ UNCHANGED <<loadPc, loaded, isLoading, videoFile, videoUrl,
                   processedVideoUrl, progress, isProcessing, error, startPos,
                   video, container, jobs>>

\* Lines 111-114; the button of lines 276-281 exists once per rendered box.
\* stopPropagation keeps the click from the container; the mousedown and
\* mouseup of a mouse click do reach it and are steps of their own.
RemoveBox(id) ==
    /\ ContainerMounted
    /\ \E i \in 1..Len(boxes) : boxes[i].id = id
    /\ boxes' = FilterOutId(boxes, id)
    /\ call' = NULL
    /\ UNCHANGED <<loadPc, loaded, isLoading, videoFile, videoUrl,
                   processedVideoUrl, progress, isProcessing, error, isDrawing,
                   currentBox, startPos, video, container, jobs>>

(***************************************************************************)
(* processVideo, lines 116-176.                                            *)
(***************************************************************************)
\* The invocation suspended at its first await (line 156), holding the values
\* its closure and locals captured.  steps lists the awaits that resolved.
NewJob ==
    [videoFile |-> videoFile,
     boxes |-> boxes,
     dims |-> Dims,
     filterChain |-> FilterChain(boxes, Dims),
     inputName |-> "input." \o Ext(videoFile.name),
     outputName |-> "output." \o Ext(videoFile.name),
     steps |-> <<>>,
     stale |-> FALSE]

\* The error cell holds the message of a failed job (line 172).
ErrorIsFailure == error # NULL /\ error.msg = ProcessingErrorMsg

\* Lines 158-163: the argument list of the invocation's exec call.
ExecArgs(j) ==
    <<"-i", j.inputName, "-vf", j.filterChain, "-c:a", "copy", j.outputName>>

\* ProcessVideo without the boxes.length === 0 tests of lines 117 and 303.
ProcessVideo_NoEmptyCheck ==
    /\ ContainerMounted
    /\ call' = [regions |-> Len(boxes), busy |-> isProcessing,
                failed |-> ErrorIsFailure, started |-> ~isProcessing]
    /\ IF isProcessing
       THEN UNCHANGED <<isProcessing, progress, error, jobs>>
       ELSE /\ Len(jobs) < MaxJobs
            /\ isProcessing' = TRUE
            /\ progress' = 0
            /\ error' = NULL
            /\ jobs' = Append(jobs, NewJob)
    /\ UNCHANGED <<loadPc, loaded, isLoading, videoFile, videoUrl,
                   processedVideoUrl, isDrawing, boxes, currentBox, startPos,
                   video, container>>

\* A click on the process button (lines 301-304) and, when the button is
\* enabled, processVideo up to its first await (lines 116-156).
ProcessVideo ==
    /\ ContainerMounted
    /\ call' = [regions |-> Len(boxes), busy |-> isProcessing,
                failed |-> ErrorIsFailure,
                started |-> ~(ProcessDisabled \/ ProcessReturnsEarly)]
    /\ IF ProcessDisabled \/ ProcessReturnsEarly
       THEN UNCHANGED <<isProcessing, progress, error, jobs>>
       ELSE /\ Len(jobs) < MaxJobs
            /\ isProcessing' = TRUE
            /\ progress' = 0
            /\ error' = NULL
            /\ jobs' = Append(jobs, NewJob)
    /\ UNCHANGED <<loadPc, loaded, isLoading, videoFile, videoUrl,
                   processedVideoUrl, isDrawing, boxes, currentBox, startPos,
                   video, container>>

\* JobStep building the chain anew from the current list each time the
\* invocation resumes.
JobStep_LateChain(i) ==
    /\ i \in 1..Len(jobs)
    /\ Awaiting(jobs[i]) # "readFile"
    /\ jobs' = [jobs EXCEPT ![i].steps = Append(@, Awaiting(jobs[i])),
                            ![i].filterChain = FilterChain(boxes, jobs[i].dims)]
    /\ call' = NULL
    /\ UNCHANGED <<loadPc, loaded, isLoading, videoFile, videoUrl,
                   processedVideoUrl, progress, isProcessing, error, isDrawing,
                   boxes, currentBox, startPos, video, container>>

\* Lines 156-165: the pending fetchFile / writeFile / exec resolves and the
\* invocation runs on to its next await.
JobStep(i) ==
    /\ i \in 1..Len(jobs)
    /\ Awaiting(jobs[i]) # "readFile"
    /\ jobs' = [jobs EXCEPT ![i].steps = Append(@, Awaiting(jobs[i]))]
    /\ call' = NULL
    /\ UNCHANGED <<loadPc, loaded, isLoading, videoFile, videoUrl,
                   processedVideoUrl, progress, isProcessing, error, isDrawing,
                   boxes, currentBox, startPos, video, container>>

\* Lines 166-167: the blob URL of the output; source, steps and stale record
\* the invocation that produced it.
OutputUrl(j) ==
    [type |-> IF j.videoFile.type = "" THEN "video/mp4" ELSE j.videoFile.type,
     source |-> j.videoFile.name,
     steps |-> Append(j.steps, Awaiting(j)),
     stale |-> j.stale]

\* JobSucceed publishing the output as soon as exec resolves, without the
\* readback.
JobSucceed_AfterExec(i) ==
    /\ i \in 1..Len(jobs)
    /\ Awaiting(jobs[i]) \in {"exec", "readFile"}
    /\ processedVideoUrl' = OutputUrl(jobs[i])
    /\ isProcessing' = FALSE
    /\ jobs' = RemoveAt(jobs, i)
    /\ video' = NULL
    /\ container' = NULL
    /\ call' = NULL
    /\ UNCHANGED <<loadPc, loaded, isLoading, videoFile, videoUrl, progress,
                   error, isDrawing, boxes, currentBox, startPos>>

\* Lines 165-169 and 173-175: readFile resolves.  The result view replaces
\* the container, so both refs become null.
JobSucceed(i) ==
    /\ i \in 1..Len(jobs)
    /\ Awaiting(jobs[i]) = "readFile"
    /\ processedVideoUrl' = OutputUrl(jobs[i])
    /\ isProcessing' = FALSE
    /\ jobs' = RemoveAt(jobs, i)
    /\ video' = NULL
    /\ container' = NULL
    /\ call' = NULL
    /\ UNCHANGED <<loadPc, loaded, isLoading, videoFile, videoUrl, progress,
                   error, isDrawing, boxes, currentBox, startPos>>

\* JobFail without the finally block of lines 173-175.
JobFail_NoFinally(i) ==
    /\ i \in 1..Len(jobs)
    /\ error' = [msg |-> ProcessingErrorMsg, stale |-> jobs[i].stale]
    /\ jobs' = RemoveAt(jobs, i)
    /\ call' = NULL
    /\ UNCHANGED <<loadPc, loaded, isLoading, videoFile, videoUrl,
                   processedVideoUrl, progress, isProcessing, isDrawing, boxes,
                   currentBox, startPos, video, container>>

\* JobFail starting the same job over after recording the error.
JobFail_Retries(i) ==
    /\ i \in 1..Len(jobs)
    /\ error' = [msg |-> ProcessingErrorMsg, stale |-> jobs[i].stale]
    /\ jobs' = [jobs EXCEPT ![i].steps = <<>>]
    /\ call' = NULL
    /\ UNCHANGED <<loadPc, loaded, isLoading, videoFile, videoUrl,
                   processedVideoUrl, progress, isProcessing, isDrawing, boxes,
                   currentBox, startPos, video, container>>

\* Lines 170-175: the pending await rejects.
JobFail(i) ==
    /\ i \in 1..Len(jobs)
    /\ error' = [msg |-> ProcessingErrorMsg, stale |-> jobs[i].stale]
    /\ isProcessing' = FALSE
    /\ jobs' = RemoveAt(jobs, i)
    /\ call' = NULL
    /\ UNCHANGED <<loadPc, loaded, isLoading, videoFile, videoUrl,
                   processedVideoUrl, progress, isDrawing, boxes, currentBox,
                   startPos, video, container>>

(***************************************************************************)
(* The component.                                                          *)
(***************************************************************************)
Next ==
    \/ Load
    \/ LoadResolve
    \/ LoadReject
    \/ Progress
    \/ HandleFileChange
    \/ Reset
    \/ DismissError
    \/ LoadedMetadata
    \/ \E p \in DownPoints : HandleMouseDown(p)
    \/ \E p \in Points : HandleMouseMove(p)
    \/ \E id \in IdPool : HandleMouseUp(id)
    \/ \E id \in IdPool : RemoveBox(id)
    \/ ProcessVideo
    \/ \E i \in 1..MaxJobs : JobStep(i)
    \/ \E i \in 1..MaxJobs : JobSucceed(i)
    \/ \E i \in 1..MaxJobs : JobFail(i)

Spec == Init /\ [][Next]_vars

\* Every pending fetchFile / writeFile / exec / readFile eventually resolves
\* or rejects.
Settle == \E i \in 1..MaxJobs : JobStep(i) \/ JobSucceed(i) \/ JobFail(i)

FairSpec == Spec /\ WF_vars(Settle)

(***************************************************************************)
(* The mapping of processVideo on a wider range of inputs: the component   *)
(* with a video uploaded and a list of regions already drawn, from where   *)
(* only the process button and the engine act.                             *)
(***************************************************************************)
\* Finalized rectangles (viewport space): the two of the worked scenarios,
\* the whole 800 x 450 viewport, the smallest rectangle that passes the
\* threshold, one at the far corner and one entirely outside an 800 x 450
\* viewport (drawn before the layout shrank).
WideRects ==
    { [x |-> 100, y |-> 100, width |-> 50, height |-> 30],
      [x |-> 795, y |-> 445, width |-> 50, height |-> 30],
      [x |-> 0, y |-> 0, width |-> 800, height |-> 450],
      [x |-> 0, y |-> 0, width |-> 11, height |-> 11],
      [x |-> 789, y |-> 439, width |-> 11, height |-> 11],
      [x |-> 900, y |-> 500, width |-> 20, height |-> 40] }

\* Intrinsic size of the video and size it is laid out at.
WideDims ==
    { [videoWidth |-> 1920, videoHeight |-> 1080, clientWidth |-> 800, clientHeight |-> 450],
      [videoWidth |-> 0, videoHeight |-> 0, clientWidth |-> 300, clientHeight |-> 150],
      [videoWidth |-> 64, videoHeight |-> 48, clientWidth |-> 64, clientHeight |-> 48],
      [videoWidth |-> 320, videoHeight |-> 240, clientWidth |-> 800, clientHeight |-> 600],
      [videoWidth |-> 1, videoHeight |-> 1, clientWidth |-> 300, clientHeight |-> 150],
      [videoWidth |-> 3840, videoHeight |-> 2160, clientWidth |-> 800, clientHeight |-> 450] }

\* The lists of at most MaxBoxes rectangles; the i-th carries the i-th id.
WithIds(rs) ==
    [i \in 1..Len(rs) |->
        [x |-> rs[i].x, y |-> rs[i].y, width |-> rs[i].width,
         height |-> rs[i].height, id |-> "id" \o ToString(i)]]

WideBoxLists ==
    UNION { { WithIds(rs) : rs \in [1..n -> WideRects] } : n \in 0..MaxBoxes }

InitMap ==
    /\ loadPc = "done"
    /\ loaded = TRUE
    /\ isLoading = FALSE
    /\ \E d \in WideDims :
        /\ video = [videoWidth |-> d.videoWidth, videoHeight |-> d.videoHeight]
        /\ container = [clientWidth |-> d.clientWidth,
                        clientHeight |-> d.clientHeight]
        /\ videoFile = [name |-> IF d.videoWidth > 0 THEN "a.mp4" ELSE "b.mov",
                        type |-> IF d.videoWidth > 0 THEN "video/mp4" ELSE "",
                        width |-> d.videoWidth, height |-> d.videoHeight,
                        shownW |-> d.clientWidth, shownH |-> d.clientHeight]
    /\ videoUrl = [src |-> videoFile.name]
    /\ processedVideoUrl = NULL
    /\ progress = 0
    /\ isProcessing = FALSE
    /\ error = NULL
    /\ isDrawing = FALSE
    /\ boxes \in WideBoxLists
    /\ currentBox = NULL
    /\ startPos = NULL
    /\ jobs = <<>>
    /\ call = NULL

NextMap ==
    \/ ProcessVideo
    \/ Progress
    \/ \E i \in 1..MaxJobs : JobStep(i)
    \/ \E i \in 1..MaxJobs : JobSucceed(i)
    \/ \E i \in 1..MaxJobs : JobFail(i)

SpecMap == InitMap /\ [][NextMap]_vars

(***************************************************************************)
(* Editing the list before processing: the component with a.mp4 uploaded   *)
(* and laid out at 800 x 450 and a list of regions already drawn, from     *)
(* where regions are removed, the process button is clicked and the engine *)
(* acts.                                                                   *)
(***************************************************************************)
\* The ids WithIds hands out.
MapIds == { "id" \o ToString(i) : i \in 1..MaxBoxes }

InitEdit ==
    /\ InitMap
    /\ video = [videoWidth |-> 1920, videoHeight |-> 1080]
    /\ container = [clientWidth |-> 800, clientHeight |-> 450]

NextEdit ==
    \/ \E id \in MapIds : RemoveBox(id)
    \/ ProcessVideo
    \/ \E i \in 1..MaxJobs : JobStep(i)
    \/ \E i \in 1..MaxJobs : JobSucceed(i)
    \/ \E i \in 1..MaxJobs : JobFail(i)

SpecEdit == InitEdit /\ [][NextEdit]_vars

(***************************************************************************)
(* Reading a filter chain back, as the engine's -vf parser does: split at  *)
(* "," into operations and at ":" into key=value parameters.               *)
(***************************************************************************)
RECURSIVE IndexOf(_, _, _)
\* Position of the first occurrence of the character c in s at or after i,
\* 0 when there is none.
IndexOf(s, c, i) ==
    IF i > Len(s) THEN 0
    ELSE IF SubSeq(s, i, i) = c THEN i
    ELSE IndexOf(s, c, i + 1)

RECURSIVE Split(_, _)
Split(s, c) ==
    LET k == IndexOf(s, c, 1)
    IN  IF k = 0 THEN <<s>>
        ELSE <<SubSeq(s, 1, k - 1)>> \o Split(SubSeq(s, k + 1, Len(s)), c)

Digit(c) == CHOOSE n \in 0..9 : ToString(n) = c

RECURSIVE ParseNat(_)
ParseNat(s) ==
    IF Len(s) = 0 THEN 0
    ELSE 10 * ParseNat(SubSeq(s, 1, Len(s) - 1)) + Digit(SubSeq(s, Len(s), Len(s)))

ParseInt(s) ==
    IF Len(s) > 0 /\ SubSeq(s, 1, 1) = "-"
    THEN 0 - ParseNat(SubSeq(s, 2, Len(s)))
    ELSE ParseNat(s)

\* The text after the prefix pre of s.
After(s, pre) == SubSeq(s, Len(pre) + 1, Len(s))
HasPrefix(s, pre) == Len(s) >= Len(pre) /\ SubSeq(s, 1, Len(pre)) = pre

\* op is delogo=x=<int>:y=<int>:w=<int>:h=<int>.
IsDelogo(op) ==
    LET f == Split(op, ":")
    IN  /\ Len(f) = 4
        /\ HasPrefix(f[1], "delogo=x=")
        /\ HasPrefix(f[2], "y=")
        /\ HasPrefix(f[3], "w=")
        /\ HasPrefix(f[4], "h=")

\* The region a delogo operation names.
ParseDelogo(op) ==
    LET f == Split(op, ":")
    IN  [x |-> ParseInt(After(f[1], "delogo=x=")),
         y |-> ParseInt(After(f[2], "y=")),
         w |-> ParseInt(After(f[3], "w=")),
         h |-> ParseInt(After(f[4], "h="))]

\* The regions of a whole chain, in chain order.
ChainRegions(chain) ==
    LET ops == Split(chain, ",")
    IN  [i \in 1..Len(ops) |-> ParseDelogo(ops[i])]

(***************************************************************************)
(* Claims.                                                                 *)
(***************************************************************************)
\* The step is a pointer-up (or pointer-leave) on the container.
IsMouseUp == \E id \in IdPool : HandleMouseUp(id)

\* The draft slot holds a rectangle that passes the 10px threshold.
OpenDraftPasses ==
    currentBox # NULL /\ currentBox.width > 10 /\ currentBox.height > 10

\* C1: every finalized rectangle has width > 10 and height > 10; a
\* pointer-up on an open draft wider and higher than 10 appends exactly that
\* rectangle at the end of the finalized list, a pointer-up on any other
\* draft leaves the list unchanged, and the draft slot is empty afterwards.
C1_EndDraft ==
    /\ [](\A i \in 1..Len(boxes) : boxes[i].width > 10 /\ boxes[i].height > 10)
    /\ [][IsMouseUp =>
            /\ currentBox' = NULL
            /\ IF OpenDraftPasses
               THEN /\ Len(boxes') = Len(boxes) + 1
                    /\ SubSeq(boxes', 1, Len(boxes)) = boxes
                    /\ boxes'[Len(boxes')].x = currentBox.x
                    /\ boxes'[Len(boxes')].y = currentBox.y
                    /\ boxes'[Len(boxes')].width = currentBox.width
                    /\ boxes'[Len(boxes')].height = currentBox.height
               ELSE boxes' = boxes]_vars

\* A pointer-up has just promoted a second draft: two finalized rectangles,
\* the draft slot empty.
C1_Witness ==
    /\ Len(boxes) = 2
    /\ currentBox = NULL
    /\ ~isDrawing
    /\ startPos # NULL

\* C2: every region a job passes to the engine lies inside the frame the
\* job read: 0 <= x <= videoWidth - 1, 0 <= y <= videoHeight - 1,
\* 1 <= w <= videoWidth - x and 1 <= h <= videoHeight - y, whatever the
\* dimensions processVideo went ahead with.
C2_InFrame ==
    \A k \in 1..Len(jobs) :
        LET rs == ChainRegions(jobs[k].filterChain)
            W == jobs[k].dims.videoWidth
            H == jobs[k].dims.videoHeight
        IN  \A i \in 1..Len(rs) :
                /\ 0 <= rs[i].x /\ rs[i].x <= W - 1
                /\ 0 <= rs[i].y /\ rs[i].y <= H - 1
                /\ 1 <= rs[i].w /\ rs[i].w <= W - rs[i].x
                /\ 1 <= rs[i].h /\ rs[i].h <= H - rs[i].y

\* C3 as stated: after a click on process with no finalized region an error
\* is recorded, no job was started and the job is not running.
C3_Original ==
    (call # NULL /\ call.regions = 0) =>
        /\ error # NULL
        /\ ~call.started
        /\ (~call.busy => ~isProcessing)

\* C3 as amended: a click on process with no finalized region is ignored
\* without a trace: no invocation is started (so no writeFile, exec or
\* readFile is issued), isProcessing, progress and the output are left as
\* they were, and no error is recorded (error is left as it was).
C3_EmptyIgnored ==
    [][(ProcessVideo /\ Len(boxes) = 0) =>
            UNCHANGED <<jobs, isProcessing, progress, error, processedVideoUrl>>]_vars

\* The process button was just clicked with an empty region list, nothing
\* running: no error, no invocation.
C3_Witness ==
    /\ call # NULL
    /\ call.regions = 0
    /\ ~call.busy
    /\ error = NULL
    /\ jobs = <<>>
    /\ ~isProcessing

DimsPositive(d) ==
    /\ d.videoWidth > 0
    /\ d.videoHeight > 0
    /\ d.containerWidth > 0
    /\ d.containerHeight > 0

\* C4: processVideo never gets as far as the engine (no invocation is
\* suspended at fetchFile / writeFile / exec / readFile, no filter chain is
\* built) with a video or viewport dimension that is not positive.
C4_FailFast == \A k \in 1..Len(jobs) : DimsPositive(jobs[k].dims)

\* C5: at most one invocation of processVideo is in flight, so at most one
\* exec; a click on process while a job is running starts nothing.
C5_SingleJob ==
    /\ [](/\ Len(jobs) <= 1
          /\ Cardinality({k \in 1..Len(jobs) : Awaiting(jobs[k]) = "exec"}) <= 1
          /\ (isProcessing <=> Len(jobs) = 1))
    /\ [][(ProcessVideo /\ isProcessing) =>
            UNCHANGED <<jobs, isProcessing, progress, error, processedVideoUrl>>]_vars

\* The process button was just clicked while the exec of the running job
\* was in flight, with regions selected.
C5_Witness ==
    /\ call # NULL
    /\ call.busy
    /\ call.regions > 0
    /\ Len(jobs) = 1
    /\ Awaiting(jobs[1]) = "exec"

\* C6: an output handle exists only after fetchFile, writeFile, exec and
\* readFile of the job that produced it resolved, in that order; when an
\* await of a job rejects, the job ends with the processing error set,
\* isProcessing false and the output still null.
C6_OutputAfterReadback ==
    /\ [](processedVideoUrl # NULL =>
            processedVideoUrl.steps = <<"fetchFile", "writeFile", "exec", "readFile">>)
    /\ [][(\E i \in 1..MaxJobs : JobFail(i)) =>
            /\ error' # NULL
            /\ error'.msg = ProcessingErrorMsg
            /\ ~isProcessing'
            /\ processedVideoUrl = NULL
            /\ processedVideoUrl' = NULL]_vars

\* A job ran to the end: the output is exposed and nothing is in flight.
C6_Witness ==
    /\ processedVideoUrl # NULL
    /\ ResultShown
    /\ jobs = <<>>

\* C7: nothing a job produces after a reset or a new upload shows up:
\* neither its output handle nor its error.
C7_NoStaleResult ==
    /\ (processedVideoUrl # NULL => ~processedVideoUrl.stale)
    /\ (error # NULL => ~error.stale)

\* The step is a click on process that started a job.
JobStarted == call' # NULL /\ call'.started

\* C8: a click on process that passes the preconditions takes the job from
\* not running to running; if every pending await eventually settles, a
\* running job eventually stops running, and when it stops exactly one of
\* the two outcomes is there: the output handle or the processing error.
C8_Lifecycle ==
    /\ [][JobStarted => (~isProcessing /\ isProcessing')]_vars
    /\ (isProcessing ~> ~isProcessing)
    /\ [][(isProcessing /\ ~isProcessing') =>
            ((processedVideoUrl' # NULL) # (error' # NULL /\ error'.msg = ProcessingErrorMsg))]_vars

\* A job ran and failed: the processing error is set, nothing is running.
C8_Witness ==
    /\ error # NULL
    /\ error.msg = ProcessingErrorMsg
    /\ ~isProcessing
    /\ jobs = <<>>
    /\ processedVideoUrl = NULL

\* C9: the chain a job is started with holds exactly one delogo operation
\* per finalized rectangle of the moment of the click, the i-th operation
\* being the one of the i-th rectangle.
C9_OnePerRegion ==
    [][JobStarted =>
        LET ops == Split(jobs'[Len(jobs')].filterChain, ",")
        IN  /\ Len(ops) = Len(boxes)
            /\ \A i \in 1..Len(ops) :
                /\ IsDelogo(ops[i])
                /\ ParseDelogo(ops[i]) = MapBox(boxes[i], Dims)]_vars

\* A job was started on two rectangles whose operations differ.
C9_Witness ==
    /\ Len(jobs) = 1
    /\ Len(jobs[1].boxes) = 2
    /\ Len(ChainRegions(jobs[1].filterChain)) = 2
    /\ ChainRegions(jobs[1].filterChain)[1] # ChainRegions(jobs[1].filterChain)[2]

\* k is v * native / rendered rounded to the nearest integer, halves up.
IsNearest(k, v, native, rendered) ==
    /\ 2 * rendered * k - rendered <= 2 * v * native
    /\ 2 * v * native < 2 * rendered * k + rendered

\* out is the nearest integer to v * native / rendered, clamped to lo..hi
\* (lower bound last, as Math.max(lo, Math.min(k, hi))).
IsScaledClamp(out, v, native, rendered, lo, hi) ==
    \E k \in {(v * native) \div rendered, (v * native) \div rendered + 1} :
        /\ IsNearest(k, v, native, rendered)
        /\ out = (IF k > hi THEN (IF hi < lo THEN lo ELSE hi)
                  ELSE IF k < lo THEN lo ELSE k)

ScenarioDims ==
    [videoWidth |-> 1920, videoHeight |-> 1080,
     containerWidth |-> 800, containerHeight |-> 450]

Geometry(b) == <<b.x, b.y, b.width, b.height>>

\* C10: with viewport 800 x 450 and video 1920 x 1080 the rectangle
\* (100,100,50,30) gives delogo=x=240:y=240:w=120:h=72 and (795,445,50,30)
\* gives x=1908, y=1068, w=12, h=12; and for all dimensions every parameter
\* is the coordinate times native / rendered, rounded to the nearest
\* integer, then clamped: x to 0..videoWidth-1, y to 0..videoHeight-1,
\* w to 1..videoWidth-x, h to 1..videoHeight-y.
C10_Mapping ==
    \A k \in 1..Len(jobs) :
        LET j == jobs[k]
            d == j.dims
            ops == Split(j.filterChain, ",")
            rs == ChainRegions(j.filterChain)
        IN  /\ Len(rs) = Len(j.boxes)
            /\ \A i \in 1..Len(rs) :
                LET b == j.boxes[i]
                IN  /\ IsScaledClamp(rs[i].x, b.x, d.videoWidth, d.containerWidth,
                                     0, d.videoWidth - 1)
                    /\ IsScaledClamp(rs[i].y, b.y, d.videoHeight, d.containerHeight,
                                     0, d.videoHeight - 1)
                    /\ IsScaledClamp(rs[i].w, b.width, d.videoWidth, d.containerWidth,
                                     1, d.videoWidth - rs[i].x)
                    /\ IsScaledClamp(rs[i].h, b.height, d.videoHeight, d.containerHeight,
                                     1, d.videoHeight - rs[i].y)
                    /\ (d = ScenarioDims /\ Geometry(b) = <<100, 100, 50, 30>>) =>
                            ops[i] = "delogo=x=240:y=240:w=120:h=72"
                    /\ (d = ScenarioDims /\ Geometry(b) = <<795, 445, 50, 30>>) =>
                            rs[i] = [x |-> 1908, y |-> 1068, w |-> 12, h |-> 12]

\* A job was started at 800 x 450 / 1920 x 1080 on the two rectangles of the
\* scenarios, in that order.
C10_Witness ==
    /\ Len(jobs) = 1
    /\ jobs[1].dims = ScenarioDims
    /\ Len(jobs[1].boxes) = 2
    /\ Geometry(jobs[1].boxes[1]) = <<100, 100, 50, 30>>
    /\ Geometry(jobs[1].boxes[2]) = <<795, 445, 50, 30>>
    /\ jobs[1].filterChain =
           "delogo=x=240:y=240:w=120:h=72,delogo=x=1908:y=1068:w=12:h=12"

\* The step is a pointer-down on the container.
IsMouseDown == \E p \in DownPoints : HandleMouseDown(p)

\* The step is a pointer-move over the container.
IsMouseMove == \E p \in Points : HandleMouseMove(p)

\* A draft is open: a pointer-down put a rectangle in the draft slot and no
\* pointer-up has ended it.
DraftOpen == isDrawing /\ currentBox # NULL

\* C11: a pointer-down that arrives while a draft is open changes neither
\* the anchor nor the draft rectangle.
C11_BeginDraftNoOp ==
    [][(IsMouseDown /\ DraftOpen) => UNCHANGED <<startPos, currentBox>>]_vars

\* C12: a reset and a new upload leave the finalized list empty and the
\* draft slot empty; and while the draft slot is empty (no pointer-down since
\* the last pointer-up, reset or upload) a pointer-move or a pointer-up
\* changes neither the draft slot nor the finalized list.
C12_ClearDiscardsDraft ==
    /\ [][(Reset \/ HandleFileChange) =>
            (boxes' = <<>> /\ currentBox' = NULL)]_vars
    /\ [][(currentBox = NULL /\ (IsMouseMove \/ IsMouseUp)) =>
            UNCHANGED <<currentBox, boxes>>]_vars

\* Positions of bs whose rectangle does not carry id.
KeptPositions(bs, id) == { i \in 1..Len(bs) : bs[i].id # id }

\* The k-th smallest element of the set of positions S.
KthOf(S, k) == CHOOSE i \in S : Cardinality({ m \in S : m < i }) = k - 1

\* after is before without the rectangles that carry id: every other
\* rectangle is kept, unchanged and in its relative order.
IsRemovalOf(after, before, id) ==
    LET K == KeptPositions(before, id)
    IN  /\ Len(after) = Cardinality(K)
        /\ \A k \in 1..Len(after) : after[k] = before[KthOf(K, k)]

C14_UniqueIds ==
    \A i, j \in 1..Len(boxes) : i # j => boxes[i].id # boxes[j].id

\* r spans exactly the interval between the coordinates u and v.
SpansInterval(lo, len, u, v) ==
    /\ len >= 0
    /\ lo <= u /\ lo <= v
    /\ lo + len >= u /\ lo + len >= v
    /\ lo \in {u, v}
    /\ lo + len \in {u, v}

\* r is the smallest axis-parallel rectangle that holds the points a and b.
IsBoundingBoxOf(r, a, b) ==
    /\ SpansInterval(r.x, r.width, a.x, b.x)
    /\ SpansInterval(r.y, r.height, a.y, b.y)

\* C15: a pointer-down sets the anchor; every pointer-move on an open draft
\* leaves the anchor alone and makes the draft the bounding box of the
\* anchor and the pointer position of that move, whatever the draft was
\* before; width and height of a draft are never negative; and the bounding
\* box is the same with anchor and pointer swapped.
C15_DraftNormalized ==
    /\ [](currentBox # NULL => (currentBox.width >= 0 /\ currentBox.height >= 0))
    /\ [](\A a, p \in Points : DraftBox(a, p) = DraftBox(p, a))
    /\ [][\A p \in DownPoints : HandleMouseDown(p) =>
            (startPos' = p /\ IsBoundingBoxOf(currentBox', p, p))]_vars
    /\ [][\A p \in Points : (HandleMouseMove(p) /\ DraftOpen) =>
            /\ startPos' = startPos
            /\ IsBoundingBoxOf(currentBox', startPos, p)
            /\ IsBoundingBoxOf(currentBox', p, startPos)]_vars

\* A draft anchored at (150,130) was dragged up and to the left, to
\* (110,120).
C15_Witness ==
    /\ DraftOpen
    /\ startPos = [x |-> 150, y |-> 130]
    /\ currentBox = [x |-> 110, y |-> 120, width |-> 40, height |-> 10]

\* C16: progress is an integer in 0..100; a click that starts a job sets it
\* to 0; a progress event changes no other cell; and while a job stays
\* running progress changes only when a progress event arrives, to the
\* nearest integer to 100 times the fraction of that event.
C16_Progress ==
    /\ [](progress \in 0..100)
    /\ [][JobStarted => progress' = 0]_vars
    /\ [][Progress =>
            UNCHANGED <<loadPc, loaded, isLoading, videoFile, videoUrl,
                        processedVideoUrl, isProcessing, error, isDrawing,
                        boxes, currentBox, startPos, video, container, jobs>>]_vars
    /\ [][(isProcessing /\ isProcessing' /\ progress' # progress) =>
            /\ Progress
            /\ \E f \in ProgressFractions : IsNearest(progress', f, 100, 1000)]_vars

\* The order the specification gives the calls of one job; the file is
\* fetched before it is written.
CallOrder == <<"fetchFile", "writeFile", "exec", "readFile">>

\* The call the invocation j has issued and not seen settle yet.
Issued(j) == CallOrder[Len(j.steps) + 1]

\* C17: an invocation of processVideo exists only once the engine's load has
\* succeeded; the calls that resolved for it are a prefix of fetchFile,
\* writeFile, exec, readFile, each once, and the call it waits on is the
\* next of that order, so writeFile has resolved when exec is issued and exec
\* has resolved when readFile is issued; a rejected call ends the invocation
\* without any further call.
C17_EngineOrder ==
    /\ []((jobs # <<>> \/ processedVideoUrl # NULL) => (loaded /\ loadPc = "done"))
    /\ [](\A k \in 1..Len(jobs) :
            /\ Len(jobs[k].steps) <= 3
            /\ jobs[k].steps = SubSeq(CallOrder, 1, Len(jobs[k].steps))
            /\ Awaiting(jobs[k]) = Issued(jobs[k]))
    /\ [][\A i \in 1..MaxJobs : JobStep(i) =>
            /\ Len(jobs') = Len(jobs)
            /\ jobs'[i].steps = Append(jobs[i].steps, Issued(jobs[i]))]_vars
    /\ [][\A i \in 1..MaxJobs : JobFail(i) =>
            /\ Len(jobs') = Len(jobs) - 1
            /\ \A k \in 1..Len(jobs') : \E m \in 1..Len(jobs) : jobs'[k] = jobs[m]]_vars

\* The engine is loaded and a job has seen writeFile and exec resolve, in
\* that order, and now waits for readFile.
C17_Witness ==
    /\ loaded
    /\ Len(jobs) = 1
    /\ jobs[1].steps = <<"fetchFile", "writeFile", "exec">>
    /\ Awaiting(jobs[1]) = "readFile"

\* Number of times the call named c resolved for the invocation j.
TimesResolved(j, c) == Cardinality({ n \in 1..Len(j.steps) : j.steps[n] = c })

\* C18: neither the click on process nor any later step of a job changes
\* the finalized list or the source file; exec resolves at most once for one
\* invocation; a rejected call ends the invocation with nothing started in
\* its place; and a click on process in the failed state, with regions
\* listed, clears the error, puts progress to 0 and starts an invocation
\* from its first call.
C18_NoAutoRetry ==
    /\ [][(ProcessVideo \/ Settle \/ Progress) =>
            UNCHANGED <<boxes, videoFile, videoUrl>>]_vars
    /\ [](\A k \in 1..Len(jobs) : TimesResolved(jobs[k], "exec") <= 1)
    /\ [][\A i \in 1..MaxJobs : JobFail(i) =>
            /\ ~isProcessing'
            /\ Len(jobs') < Len(jobs)
            /\ \A k \in 1..Len(jobs') : jobs'[k].steps # <<>>]_vars
    /\ [][(ProcessVideo /\ ErrorIsFailure /\ ~isProcessing /\ Len(boxes) > 0) =>
            /\ error' = NULL
            /\ progress' = 0
            /\ isProcessing'
            /\ Len(jobs') = Len(jobs) + 1
            /\ jobs'[Len(jobs')].steps = <<>>
            /\ jobs'[Len(jobs')].boxes = boxes]_vars

\* The process button was just clicked in the failed state: the error is
\* gone, progress is 0 and a fresh invocation waits at its first call.
C18_Witness ==
    /\ call # NULL
    /\ call.failed
    /\ call.started
    /\ error = NULL
    /\ progress = 0
    /\ isProcessing
    /\ Len(jobs) = 1
    /\ jobs[1].steps = <<>>

\* The chain consists of one well-formed delogo operation per rectangle of
\* bs, in order, each naming that rectangle mapped with the dimensions d.
ChainNames(chain, bs, d) ==
    LET ops == Split(chain, ",")
    IN  /\ Len(ops) = Len(bs)
        /\ \A i \in 1..Len(ops) :
            /\ IsDelogo(ops[i])
            /\ ParseDelogo(ops[i]) = MapBox(bs[i], d)

\* C19: the -vf argument of a job's exec call names the regions of the
\* finalized list and the dimensions of the moment of the click, and no
\* later step changes the argument list of a job that is still in flight,
\* whatever is drawn or removed meanwhile.
C19_ChainFixed ==
    /\ [][JobStarted =>
            /\ Len(ExecArgs(jobs'[Len(jobs')])) = 7
            /\ ExecArgs(jobs'[Len(jobs')])[3] = "-vf"
            /\ ChainNames(ExecArgs(jobs'[Len(jobs')])[4], boxes, Dims)]_vars
    /\ [][Len(jobs') = Len(jobs) =>
            \A k \in 1..Len(jobs) : ExecArgs(jobs'[k]) = ExecArgs(jobs[k])]_vars
    /\ [](\A k \in 1..Len(jobs) :
            ChainNames(ExecArgs(jobs[k])[4], jobs[k].boxes, jobs[k].dims))

\* The exec of a job is running and the finalized list is no longer the
\* one the job was started with: it has one rectangle more or less.
C19_Witness ==
    /\ Len(jobs) = 1
    /\ ~jobs[1].stale
    /\ Awaiting(jobs[1]) = "exec"
    /\ Len(boxes) # Len(jobs[1].boxes)
    /\ Len(ChainRegions(jobs[1].filterChain)) = Len(jobs[1].boxes)

\* C20: while a job is running a source file is loaded, and an output
\* handle is exposed only together with the source file it was produced
\* from.
C20_OutputMatchesSource ==
    /\ (isProcessing => videoFile # NULL)
    /\ (processedVideoUrl # NULL =>
            /\ videoFile # NULL
            /\ processedVideoUrl.source = videoFile.name)

====
